---- MODULE Spec2Model ----
(***************************************************************************)
(* A model of project_to_markdown (src/project_to_markdown/__init__.py):   *)
(* the ProjectV2 categorizer and Markdown renderer, the project URI        *)
(* parser, the project resolver, the legacy card formatter with its        *)
(* memoized content lookup and CDATA stripping, and the issue importer.    *)
(*                                                                         *)
(* Python strings that are only copied and concatenated are TLA+ strings.  *)
(* Strings that the code inspects character by character (the URI, the     *)
(* card line) are sequences of characters, one string per character: a    *)
(* character is the string of itself and, where a string literal cannot   *)
(* denote it, the string of its Python escape ("\\x0b" is U+000B,          *)
(* "\\u0663" is U+0663).                                                   *)
(***************************************************************************)
EXTENDS Integers, Sequences, FiniteSets, TLC

VARIABLES
    \* convert_to_markdown
    json_data, categorized_items, markdown_output, md_pc,
    \* get_login_and_project_number_from_uri
    uri, uri_result,
    \* get_card_content, format_card
    card_content_memo, get_content_calls, first_outcome, lookups, card,
    last_op, content_returned, line_returned,
    \* the CDATA substitution of format_card
    cdata_pieces, stripped_once, stripped_twice, cd_pc,
    \* add_issues_to_project
    project_uri, issues, imp_pc, issue_index, calls, project_node_id, item_id,
    board, imp_error

md_vars == <<json_data, categorized_items, markdown_output, md_pc>>
uri_vars == <<uri, uri_result>>
card_vars == <<card_content_memo, get_content_calls, first_outcome, lookups, card,
               last_op, content_returned, line_returned>>
cd_vars == <<cdata_pieces, stripped_once, stripped_twice, cd_pc>>
imp_vars == <<project_uri, issues, imp_pc, issue_index, calls, project_node_id,
              item_id, board, imp_error>>
vars == <<md_vars, uri_vars, card_vars, cd_vars, imp_vars>>

\* Python's None, as a value of the string domain that no program string equals.
None == "<None>"

\* Python truthiness of an Optional[str]: None and "" are falsy.
Truthy(v) == v # None /\ v # ""

(***************************************************************************)
(* Bounds of the model.                                                    *)
(***************************************************************************)
\* field values of the one item of a single-item board
MaxFields == 3
\* items of a board
MaxItems == 3
\* path segments of a project URI
MaxSegments == 4
\* calls of get_card_content in one process
MaxLookups == 3
\* pieces (a CDATA opener, a closer, a plain character) of a text
MaxPieces == 6
\* issues handed to add_issues_to_project
MaxIssues == 3

SeqsUpTo(S, n) == UNION {[1..k -> S] : k \in 0..n}

(***************************************************************************)
(* convert_to_markdown: the categorizer and the renderer.                  *)
(***************************************************************************)
\* A field value as the items query returns it: `field` is field.name (None
\* when the value has no named field), `name` the single-select payload,
\* `text` the text payload; a payload the value does not carry is None, which
\* is what dict.get returns for it.
FieldValue(f, n, t) == [field |-> f, name |-> n, text |-> t]

FieldValues ==
    { FieldValue("Status", "Todo", None),
      FieldValue("Status", "Done", None),
      FieldValue("Status", "", None),
      FieldValue("Status", None, "A"),
      FieldValue("Title", None, "A"),
      FieldValue("Title", None, "B"),
      FieldValue("Title", "Todo", None),
      FieldValue("Priority", "Done", "B") }

Item(fields) == [fieldValues |-> [nodes |-> fields]]

Project(nodes) == [data |-> [node |-> [items |-> [nodes |-> nodes]]]]

\* Items of every shape up to MaxFields field values.
Items == { Item(fs) : fs \in SeqsUpTo(FieldValues, MaxFields) }

\* Items as a board usually holds them: a Status and a Title, in either order,
\* or one of the two alone.
BoardItems ==
    { Item(<<FieldValue("Status", s, None), FieldValue("Title", None, t)>>) :
        s \in {"Todo", "Done"}, t \in {"A", "B", "C"} }
    \cup { Item(<<FieldValue("Title", None, "A"), FieldValue("Status", "Done", None)>>),
           Item(<<FieldValue("Status", "Todo", None)>>),
           Item(<<FieldValue("Title", None, "B")>>) }

Boards == { Project(ns) : ns \in SeqsUpTo(BoardItems, MaxItems) }
          \cup { Project(<<i>>) : i \in Items }

\* A scan in which the first "Status" and the first "Title" win.
RECURSIVE ScanFieldValuesFirstWins(_, _, _, _)
ScanFieldValuesFirstWins(fields, k, status, title) ==
    IF k > Len(fields) THEN [status |-> status, title |-> title]
    ELSE IF fields[k].field = "Status" /\ status = None
         THEN ScanFieldValuesFirstWins(fields, k + 1, fields[k].name, title)
         ELSE IF fields[k].field = "Title" /\ title = None
              THEN ScanFieldValuesFirstWins(fields, k + 1, status, fields[k].text)
              ELSE ScanFieldValuesFirstWins(fields, k + 1, status, title)

\* Lines 90-94: the scan of one item's field values, from the locals
\* (status, title) before field k to the locals after the last field.
RECURSIVE ScanFieldValues(_, _, _, _)
ScanFieldValues(fields, k, status, title) ==
    IF k > Len(fields) THEN [status |-> status, title |-> title]
    ELSE IF fields[k].field = "Status"
         THEN ScanFieldValues(fields, k + 1, fields[k].name, title)
         ELSE IF fields[k].field = "Title"
              THEN ScanFieldValues(fields, k + 1, status, fields[k].text)
              ELSE ScanFieldValues(fields, k + 1, status, title)

\* The dict categorized_items, as the sequence of its entries in insertion
\* order (a Python dict iterates in insertion order).
HasKey(cat, status) == \E j \in 1..Len(cat) : cat[j].status = status

\* A test that forgets the title.
PlacedStatusOnly(status, title) == Truthy(status)

\* Line 97: the test that decides whether the item is placed.
Placed(status, title) == Truthy(status) /\ Truthy(title)

\* An append that skips a title the status already lists.
AppendTitleDedup(cat, status, title) ==
    LET withKey == IF HasKey(cat, status) THEN cat
                   ELSE Append(cat, [status |-> status, titles |-> <<>>])
    IN [j \in 1..Len(withKey) |->
          IF withKey[j].status = status
             /\ ~ \E m \in 1..Len(withKey[j].titles) : withKey[j].titles[m] = title
          THEN [withKey[j] EXCEPT !.titles = Append(@, title)]
          ELSE withKey[j]]

\* Lines 98-100: a new key gets an empty list, then the title is appended.
AppendTitle(cat, status, title) ==
    LET withKey == IF HasKey(cat, status) THEN cat
                   ELSE Append(cat, [status |-> status, titles |-> <<>>])
    IN [j \in 1..Len(withKey) |->
          IF withKey[j].status = status
          THEN [withKey[j] EXCEPT !.titles = Append(@, title)]
          ELSE withKey[j]]

\* Lines 86-100: the loop over the items, from item k on.
RECURSIVE Categorize(_, _, _)
Categorize(nodes, k, cat) ==
    IF k > Len(nodes) THEN cat
    ELSE LET s == ScanFieldValues(nodes[k].fieldValues.nodes, 1, None, None)
         IN Categorize(nodes, k + 1,
                       IF Placed(s.status, s.title)
                       THEN AppendTitle(cat, s.status, s.title)
                       ELSE cat)

\* Lines 106-107: the task-list lines of one status.
RECURSIVE RenderTitles(_, _)
RenderTitles(titles, k) ==
    IF k > Len(titles) THEN ""
    ELSE ("- [ ] " \o titles[k] \o "\n") \o RenderTitles(titles, k + 1)

\* Lines 104-108: one section per key, in the dict's order.
RECURSIVE RenderSections(_, _)
RenderSections(cat, j) ==
    IF j > Len(cat) THEN ""
    ELSE ("## " \o cat[j].status \o "\n") \o RenderTitles(cat[j].titles, 1)
         \o "\n" \o RenderSections(cat, j + 1)

\* Lines 103-110.
Render(cat) == "# Project Board Status\n\n" \o RenderSections(cat, 1)

\* Lines 81-110.
convert_to_markdown(data) ==
    Render(Categorize(data.data.node.items.nodes, 1, <<>>))

MdInit ==
    /\ json_data \in Boards
    /\ categorized_items = <<>>
    /\ markdown_output = None
    /\ md_pc = "start"

MdIdle ==
    /\ json_data = Project(<<>>)
    /\ categorized_items = <<>>
    /\ markdown_output = None
    /\ md_pc = "idle"

\* One call of convert_to_markdown(json_data).
ConvertToMarkdown ==
    /\ md_pc = "start"
    /\ categorized_items' = Categorize(json_data.data.node.items.nodes, 1, <<>>)
    /\ markdown_output' = convert_to_markdown(json_data)
    /\ md_pc' = "done"
    /\ UNCHANGED json_data
    /\ UNCHANGED <<uri_vars, card_vars, cd_vars, imp_vars>>

(***************************************************************************)
(* get_login_and_project_number_from_uri: the project URI parser.          *)
(* A URI is a sequence of one-character strings.                           *)
(***************************************************************************)
\* The decimal digits of Unicode (category Nd), which \d matches and int()
\* converts: each row holds the digits 0 to 9 of one script.
DecimalDigits ==
    << <<"0", "1", "2", "3", "4", "5", "6", "7", "8", "9">>,
       <<"\\u0660", "\\u0661", "\\u0662", "\\u0663", "\\u0664", "\\u0665", "\\u0666", "\\u0667", "\\u0668", "\\u0669">>,
       <<"\\u06f0", "\\u06f1", "\\u06f2", "\\u06f3", "\\u06f4", "\\u06f5", "\\u06f6", "\\u06f7", "\\u06f8", "\\u06f9">>,
       <<"\\u07c0", "\\u07c1", "\\u07c2", "\\u07c3", "\\u07c4", "\\u07c5", "\\u07c6", "\\u07c7", "\\u07c8", "\\u07c9">>,
       <<"\\u0966", "\\u0967", "\\u0968", "\\u0969", "\\u096a", "\\u096b", "\\u096c", "\\u096d", "\\u096e", "\\u096f">>,
       <<"\\u09e6", "\\u09e7", "\\u09e8", "\\u09e9", "\\u09ea", "\\u09eb", "\\u09ec", "\\u09ed", "\\u09ee", "\\u09ef">>,
       <<"\\u0a66", "\\u0a67", "\\u0a68", "\\u0a69", "\\u0a6a", "\\u0a6b", "\\u0a6c", "\\u0a6d", "\\u0a6e", "\\u0a6f">>,
       <<"\\u0ae6", "\\u0ae7", "\\u0ae8", "\\u0ae9", "\\u0aea", "\\u0aeb", "\\u0aec", "\\u0aed", "\\u0aee", "\\u0aef">>,
       <<"\\u0b66", "\\u0b67", "\\u0b68", "\\u0b69", "\\u0b6a", "\\u0b6b", "\\u0b6c", "\\u0b6d", "\\u0b6e", "\\u0b6f">>,
       <<"\\u0be6", "\\u0be7", "\\u0be8", "\\u0be9", "\\u0bea", "\\u0beb", "\\u0bec", "\\u0bed", "\\u0bee", "\\u0bef">>,
       <<"\\u0c66", "\\u0c67", "\\u0c68", "\\u0c69", "\\u0c6a", "\\u0c6b", "\\u0c6c", "\\u0c6d", "\\u0c6e", "\\u0c6f">>,
       <<"\\u0ce6", "\\u0ce7", "\\u0ce8", "\\u0ce9", "\\u0cea", "\\u0ceb", "\\u0cec", "\\u0ced", "\\u0cee", "\\u0cef">>,
       <<"\\u0d66", "\\u0d67", "\\u0d68", "\\u0d69", "\\u0d6a", "\\u0d6b", "\\u0d6c", "\\u0d6d", "\\u0d6e", "\\u0d6f">>,
       <<"\\u0de6", "\\u0de7", "\\u0de8", "\\u0de9", "\\u0dea", "\\u0deb", "\\u0dec", "\\u0ded", "\\u0dee", "\\u0def">>,
       <<"\\u0e50", "\\u0e51", "\\u0e52", "\\u0e53", "\\u0e54", "\\u0e55", "\\u0e56", "\\u0e57", "\\u0e58", "\\u0e59">>,
       <<"\\u0ed0", "\\u0ed1", "\\u0ed2", "\\u0ed3", "\\u0ed4", "\\u0ed5", "\\u0ed6", "\\u0ed7", "\\u0ed8", "\\u0ed9">>,
       <<"\\u0f20", "\\u0f21", "\\u0f22", "\\u0f23", "\\u0f24", "\\u0f25", "\\u0f26", "\\u0f27", "\\u0f28", "\\u0f29">>,
       <<"\\u1040", "\\u1041", "\\u1042", "\\u1043", "\\u1044", "\\u1045", "\\u1046", "\\u1047", "\\u1048", "\\u1049">>,
       <<"\\u1090", "\\u1091", "\\u1092", "\\u1093", "\\u1094", "\\u1095", "\\u1096", "\\u1097", "\\u1098", "\\u1099">>,
       <<"\\u17e0", "\\u17e1", "\\u17e2", "\\u17e3", "\\u17e4", "\\u17e5", "\\u17e6", "\\u17e7", "\\u17e8", "\\u17e9">>,
       <<"\\u1810", "\\u1811", "\\u1812", "\\u1813", "\\u1814", "\\u1815", "\\u1816", "\\u1817", "\\u1818", "\\u1819">>,
       <<"\\u1946", "\\u1947", "\\u1948", "\\u1949", "\\u194a", "\\u194b", "\\u194c", "\\u194d", "\\u194e", "\\u194f">>,
       <<"\\u19d0", "\\u19d1", "\\u19d2", "\\u19d3", "\\u19d4", "\\u19d5", "\\u19d6", "\\u19d7", "\\u19d8", "\\u19d9">>,
       <<"\\u1a80", "\\u1a81", "\\u1a82", "\\u1a83", "\\u1a84", "\\u1a85", "\\u1a86", "\\u1a87", "\\u1a88", "\\u1a89">>,
       <<"\\u1a90", "\\u1a91", "\\u1a92", "\\u1a93", "\\u1a94", "\\u1a95", "\\u1a96", "\\u1a97", "\\u1a98", "\\u1a99">>,
       <<"\\u1b50", "\\u1b51", "\\u1b52", "\\u1b53", "\\u1b54", "\\u1b55", "\\u1b56", "\\u1b57", "\\u1b58", "\\u1b59">>,
       <<"\\u1bb0", "\\u1bb1", "\\u1bb2", "\\u1bb3", "\\u1bb4", "\\u1bb5", "\\u1bb6", "\\u1bb7", "\\u1bb8", "\\u1bb9">>,
       <<"\\u1c40", "\\u1c41", "\\u1c42", "\\u1c43", "\\u1c44", "\\u1c45", "\\u1c46", "\\u1c47", "\\u1c48", "\\u1c49">>,
       <<"\\u1c50", "\\u1c51", "\\u1c52", "\\u1c53", "\\u1c54", "\\u1c55", "\\u1c56", "\\u1c57", "\\u1c58", "\\u1c59">>,
       <<"\\ua620", "\\ua621", "\\ua622", "\\ua623", "\\ua624", "\\ua625", "\\ua626", "\\ua627", "\\ua628", "\\ua629">>,
       <<"\\ua8d0", "\\ua8d1", "\\ua8d2", "\\ua8d3", "\\ua8d4", "\\ua8d5", "\\ua8d6", "\\ua8d7", "\\ua8d8", "\\ua8d9">>,
       <<"\\ua900", "\\ua901", "\\ua902", "\\ua903", "\\ua904", "\\ua905", "\\ua906", "\\ua907", "\\ua908", "\\ua909">>,
       <<"\\ua9d0", "\\ua9d1", "\\ua9d2", "\\ua9d3", "\\ua9d4", "\\ua9d5", "\\ua9d6", "\\ua9d7", "\\ua9d8", "\\ua9d9">>,
       <<"\\ua9f0", "\\ua9f1", "\\ua9f2", "\\ua9f3", "\\ua9f4", "\\ua9f5", "\\ua9f6", "\\ua9f7", "\\ua9f8", "\\ua9f9">>,
       <<"\\uaa50", "\\uaa51", "\\uaa52", "\\uaa53", "\\uaa54", "\\uaa55", "\\uaa56", "\\uaa57", "\\uaa58", "\\uaa59">>,
       <<"\\uabf0", "\\uabf1", "\\uabf2", "\\uabf3", "\\uabf4", "\\uabf5", "\\uabf6", "\\uabf7", "\\uabf8", "\\uabf9">>,
       <<"\\uff10", "\\uff11", "\\uff12", "\\uff13", "\\uff14", "\\uff15", "\\uff16", "\\uff17", "\\uff18", "\\uff19">>,
       <<"\\U000104a0", "\\U000104a1", "\\U000104a2", "\\U000104a3", "\\U000104a4", "\\U000104a5", "\\U000104a6", "\\U000104a7", "\\U000104a8", "\\U000104a9">>,
       <<"\\U00010d30", "\\U00010d31", "\\U00010d32", "\\U00010d33", "\\U00010d34", "\\U00010d35", "\\U00010d36", "\\U00010d37", "\\U00010d38", "\\U00010d39">>,
       <<"\\U00011066", "\\U00011067", "\\U00011068", "\\U00011069", "\\U0001106a", "\\U0001106b", "\\U0001106c", "\\U0001106d", "\\U0001106e", "\\U0001106f">>,
       <<"\\U000110f0", "\\U000110f1", "\\U000110f2", "\\U000110f3", "\\U000110f4", "\\U000110f5", "\\U000110f6", "\\U000110f7", "\\U000110f8", "\\U000110f9">>,
       <<"\\U00011136", "\\U00011137", "\\U00011138", "\\U00011139", "\\U0001113a", "\\U0001113b", "\\U0001113c", "\\U0001113d", "\\U0001113e", "\\U0001113f">>,
       <<"\\U000111d0", "\\U000111d1", "\\U000111d2", "\\U000111d3", "\\U000111d4", "\\U000111d5", "\\U000111d6", "\\U000111d7", "\\U000111d8", "\\U000111d9">>,
       <<"\\U000112f0", "\\U000112f1", "\\U000112f2", "\\U000112f3", "\\U000112f4", "\\U000112f5", "\\U000112f6", "\\U000112f7", "\\U000112f8", "\\U000112f9">>,
       <<"\\U00011450", "\\U00011451", "\\U00011452", "\\U00011453", "\\U00011454", "\\U00011455", "\\U00011456", "\\U00011457", "\\U00011458", "\\U00011459">>,
       <<"\\U000114d0", "\\U000114d1", "\\U000114d2", "\\U000114d3", "\\U000114d4", "\\U000114d5", "\\U000114d6", "\\U000114d7", "\\U000114d8", "\\U000114d9">>,
       <<"\\U00011650", "\\U00011651", "\\U00011652", "\\U00011653", "\\U00011654", "\\U00011655", "\\U00011656", "\\U00011657", "\\U00011658", "\\U00011659">>,
       <<"\\U000116c0", "\\U000116c1", "\\U000116c2", "\\U000116c3", "\\U000116c4", "\\U000116c5", "\\U000116c6", "\\U000116c7", "\\U000116c8", "\\U000116c9">>,
       <<"\\U00011730", "\\U00011731", "\\U00011732", "\\U00011733", "\\U00011734", "\\U00011735", "\\U00011736", "\\U00011737", "\\U00011738", "\\U00011739">>,
       <<"\\U000118e0", "\\U000118e1", "\\U000118e2", "\\U000118e3", "\\U000118e4", "\\U000118e5", "\\U000118e6", "\\U000118e7", "\\U000118e8", "\\U000118e9">>,
       <<"\\U00011950", "\\U00011951", "\\U00011952", "\\U00011953", "\\U00011954", "\\U00011955", "\\U00011956", "\\U00011957", "\\U00011958", "\\U00011959">>,
       <<"\\U00011c50", "\\U00011c51", "\\U00011c52", "\\U00011c53", "\\U00011c54", "\\U00011c55", "\\U00011c56", "\\U00011c57", "\\U00011c58", "\\U00011c59">>,
       <<"\\U00011d50", "\\U00011d51", "\\U00011d52", "\\U00011d53", "\\U00011d54", "\\U00011d55", "\\U00011d56", "\\U00011d57", "\\U00011d58", "\\U00011d59">>,
       <<"\\U00011da0", "\\U00011da1", "\\U00011da2", "\\U00011da3", "\\U00011da4", "\\U00011da5", "\\U00011da6", "\\U00011da7", "\\U00011da8", "\\U00011da9">>,
       <<"\\U00016a60", "\\U00016a61", "\\U00016a62", "\\U00016a63", "\\U00016a64", "\\U00016a65", "\\U00016a66", "\\U00016a67", "\\U00016a68", "\\U00016a69">>,
       <<"\\U00016ac0", "\\U00016ac1", "\\U00016ac2", "\\U00016ac3", "\\U00016ac4", "\\U00016ac5", "\\U00016ac6", "\\U00016ac7", "\\U00016ac8", "\\U00016ac9">>,
       <<"\\U00016b50", "\\U00016b51", "\\U00016b52", "\\U00016b53", "\\U00016b54", "\\U00016b55", "\\U00016b56", "\\U00016b57", "\\U00016b58", "\\U00016b59">>,
       <<"\\U0001d7ce", "\\U0001d7cf", "\\U0001d7d0", "\\U0001d7d1", "\\U0001d7d2", "\\U0001d7d3", "\\U0001d7d4", "\\U0001d7d5", "\\U0001d7d6", "\\U0001d7d7">>,
       <<"\\U0001d7d8", "\\U0001d7d9", "\\U0001d7da", "\\U0001d7db", "\\U0001d7dc", "\\U0001d7dd", "\\U0001d7de", "\\U0001d7df", "\\U0001d7e0", "\\U0001d7e1">>,
       <<"\\U0001d7e2", "\\U0001d7e3", "\\U0001d7e4", "\\U0001d7e5", "\\U0001d7e6", "\\U0001d7e7", "\\U0001d7e8", "\\U0001d7e9", "\\U0001d7ea", "\\U0001d7eb">>,
       <<"\\U0001d7ec", "\\U0001d7ed", "\\U0001d7ee", "\\U0001d7ef", "\\U0001d7f0", "\\U0001d7f1", "\\U0001d7f2", "\\U0001d7f3", "\\U0001d7f4", "\\U0001d7f5">>,
       <<"\\U0001d7f6", "\\U0001d7f7", "\\U0001d7f8", "\\U0001d7f9", "\\U0001d7fa", "\\U0001d7fb", "\\U0001d7fc", "\\U0001d7fd", "\\U0001d7fe", "\\U0001d7ff">>,
       <<"\\U0001e140", "\\U0001e141", "\\U0001e142", "\\U0001e143", "\\U0001e144", "\\U0001e145", "\\U0001e146", "\\U0001e147", "\\U0001e148", "\\U0001e149">>,
       <<"\\U0001e2f0", "\\U0001e2f1", "\\U0001e2f2", "\\U0001e2f3", "\\U0001e2f4", "\\U0001e2f5", "\\U0001e2f6", "\\U0001e2f7", "\\U0001e2f8", "\\U0001e2f9">>,
       <<"\\U0001e950", "\\U0001e951", "\\U0001e952", "\\U0001e953", "\\U0001e954", "\\U0001e955", "\\U0001e956", "\\U0001e957", "\\U0001e958", "\\U0001e959">>,
       <<"\\U0001fbf0", "\\U0001fbf1", "\\U0001fbf2", "\\U0001fbf3", "\\U0001fbf4", "\\U0001fbf5", "\\U0001fbf6", "\\U0001fbf7", "\\U0001fbf8", "\\U0001fbf9">> >>

AsciiDigits == {DecimalDigits[1][v] : v \in 1..10}

\* The characters \d matches.
Digits == {DecimalDigits[r][v] : r \in 1..Len(DecimalDigits), v \in 1..10}

DigitValue(c) ==
    (CHOOSE v \in 1..10 : \E r \in 1..Len(DecimalDigits) : DecimalDigits[r][v] = c) - 1

\* int() raises ValueError for a text of more digits than this.
MAX_STR_DIGITS == 4300

\* int(digits), for a non-empty run of at most MAX_STR_DIGITS decimal digits.
RECURSIVE int(_)
int(ds) ==
    IF Len(ds) = 1 THEN DigitValue(ds[1])
    ELSE 10 * int(SubSeq(ds, 1, Len(ds) - 1)) + DigitValue(ds[Len(ds)])

RECURSIVE Concat(_)
Concat(parts) == IF parts = <<>> THEN <<>> ELSE Head(parts) \o Concat(Tail(parts))

\* str.find from pos for any character of the set cs: the first position at
\* or after pos of such a character, Len(s) + 1 when there is none.
FirstOf(s, pos, cs) ==
    LET at == {i \in pos..Len(s) : s[i] \in cs}
    IN IF at = {} THEN Len(s) + 1 ELSE CHOOSE i \in at : \A j \in at : i <= j

\* The first position at or after pos of a character outside the set cs,
\* Len(s) + 1 when there is none.
FirstNotOf(s, pos, cs) ==
    LET at == {i \in pos..Len(s) : s[i] \notin cs}
    IN IF at = {} THEN Len(s) + 1 ELSE CHOOSE i \in at : \A j \in at : i <= j

\* The last position of a character of the set cs, 0 when there is none.
LastOf(s, cs) ==
    LET at == {i \in 1..Len(s) : s[i] \in cs}
    IN IF at = {} THEN 0 ELSE CHOOSE i \in at : \A j \in at : j <= i

Contains(s, c) == \E i \in 1..Len(s) : s[i] = c

\* str.split(sep) for a one-character separator.
RECURSIVE Split(_, _)
Split(s, sep) ==
    LET i == FirstOf(s, 1, {sep})
    IN IF i > Len(s) THEN <<s>>
       ELSE <<SubSeq(s, 1, i - 1)>> \o Split(SubSeq(s, i + 1, Len(s)), sep)

(***************************************************************************)
(* urllib.parse.urlparse(uri).path, the standard-library call of line 125. *)
(* Characters are ASCII.                                                   *)
(***************************************************************************)
LowerCase == <<"a", "b", "c", "d", "e", "f", "g", "h", "i", "j", "k", "l", "m", "n", "o", "p", "q", "r", "s", "t", "u", "v", "w", "x", "y", "z">>
UpperCase == <<"A", "B", "C", "D", "E", "F", "G", "H", "I", "J", "K", "L", "M", "N", "O", "P", "Q", "R", "S", "T", "U", "V", "W", "X", "Y", "Z">>
Letters == {LowerCase[i] : i \in 1..26} \cup {UpperCase[i] : i \in 1..26}

\* scheme_chars.
SchemeChars == Letters \cup AsciiDigits \cup {"+", "-", "."}

HexDigits == AsciiDigits \cup {"a", "b", "c", "d", "e", "f", "A", "B", "C", "D", "E", "F"}

\* str.lower() of one character.
lower(c) ==
    IF \E i \in 1..26 : UpperCase[i] = c
    THEN LowerCase[CHOOSE i \in 1..26 : UpperCase[i] = c]
    ELSE c

\* The C0 controls and the space, U+0000 to U+0020.
WHATWG_C0_CONTROL_OR_SPACE ==
    { "\\x00", "\\x01", "\\x02", "\\x03", "\\x04", "\\x05", "\\x06", "\\x07",
      "\\x08", "\t", "\n", "\\x0b", "\f", "\r", "\\x0e", "\\x0f", "\\x10",
      "\\x11", "\\x12", "\\x13", "\\x14", "\\x15", "\\x16", "\\x17", "\\x18",
      "\\x19", "\\x1a", "\\x1b", "\\x1c", "\\x1d", "\\x1e", "\\x1f", " " }

UNSAFE_URL_BYTES_TO_REMOVE == {"\t", "\r", "\n"}

\* The schemes whose last path segment may carry ";parameters".
uses_params ==
    { <<>>,
      <<"f", "t", "p">>,
      <<"h", "d", "l">>,
      <<"p", "r", "o", "s", "p", "e", "r", "o">>,
      <<"h", "t", "t", "p">>,
      <<"i", "m", "a", "p">>,
      <<"h", "t", "t", "p", "s">>,
      <<"s", "h", "t", "t", "p">>,
      <<"r", "t", "s", "p">>,
      <<"r", "t", "s", "p", "s">>,
      <<"r", "t", "s", "p", "u">>,
      <<"s", "i", "p">>,
      <<"s", "i", "p", "s">>,
      <<"m", "m", "s">>,
      <<"s", "f", "t", "p">>,
      <<"t", "e", "l">> }

\* ipaddress.IPv4Address._parse_octet accepts the octet.
OctetOK(o) ==
    /\ o # <<>>
    /\ \A i \in 1..Len(o) : o[i] \in AsciiDigits
    /\ Len(o) <= 3
    /\ (o # <<"0">> => o[1] # "0")
    /\ int(o) <= 255

\* ipaddress.IPv4Address(s) succeeds.
IPv4Valid(s) ==
    LET octets == Split(s, ".")
    IN Len(octets) = 4 /\ \A i \in 1..4 : OctetOK(octets[i])

\* ipaddress.IPv6Address._parse_hextet accepts a non-empty part.
HextetOK(h) == (\A i \in 1..Len(h) : h[i] \in HexDigits) /\ Len(h) <= 4

\* ipaddress.IPv6Address._ip_int_from_string: the parts between the colons,
\* an IPv4 suffix replaced by its two hextets (only their number matters
\* here, their value is never used).
IPv6Parts(addr) ==
    LET raw == Split(addr, ":")
    IN IF Contains(raw[Len(raw)], ".")
       THEN SubSeq(raw, 1, Len(raw) - 1) \o << <<"0">>, <<"0">> >>
       ELSE raw

\* The IPv4 suffix of the address, when it has one, is an IPv4 address.
IPv4SuffixOK(addr) ==
    LET raw == Split(addr, ":")
    IN Contains(raw[Len(raw)], ".") => IPv4Valid(raw[Len(raw)])

\* The checks on an address with a "::" at part skip_index.
SkipOK(parts, skip_index) ==
    LET parts_hi == IF parts[1] = <<>> THEN skip_index - 2 ELSE skip_index - 1
        parts_lo == IF parts[Len(parts)] = <<>> THEN Len(parts) - skip_index - 1
                    ELSE Len(parts) - skip_index
    IN /\ (parts[1] = <<>> => parts_hi = 0)
       /\ (parts[Len(parts)] = <<>> => parts_lo = 0)
       /\ 8 - (parts_hi + parts_lo) >= 1

\* The checks on the parts: at most nine, at most one "::", an empty first
\* or last part only next to it, eight parts without it, and hextets.
IPv6PartsValid(parts) ==
    LET skips == {i \in 2..(Len(parts) - 1) : parts[i] = <<>>}
    IN /\ Len(parts) <= 9
       /\ Cardinality(skips) <= 1
       /\ IF skips # {}
          THEN SkipOK(parts, CHOOSE i \in skips : TRUE)
          ELSE Len(parts) = 8 /\ parts[1] # <<>> /\ parts[Len(parts)] # <<>>
       /\ \A i \in 1..Len(parts) : HextetOK(parts[i])

\* ipaddress.IPv6Address(s) succeeds, for s without "/": an address of at
\* least three parts, and after a "%" a non-empty scope id without "%".
IPv6Valid(s) ==
    LET pct == FirstOf(s, 1, {"%"})
        addr == SubSeq(s, 1, pct - 1)
        scope_id == SubSeq(s, pct + 1, Len(s))
    IN /\ (pct <= Len(s) => scope_id # <<>> /\ ~Contains(scope_id, "%"))
       /\ addr # <<>>
       /\ Len(Split(addr, ":")) >= 3
       /\ IPv4SuffixOK(addr)
       /\ IPv6PartsValid(IPv6Parts(addr))

\* urllib.parse._check_bracketed_host accepts the host: an IPvFuture address
\* (v, hex digits, ".", at least one more character) or an IPv6 address.
check_bracketed_host(hostname) ==
    IF hostname # <<>> /\ hostname[1] = "v"
    THEN LET dot == FirstNotOf(hostname, 2, HexDigits)
         IN /\ dot > 2 /\ dot < Len(hostname) /\ hostname[dot] = "."
    ELSE IPv6Valid(hostname)

\* urlsplit: leading spaces and controls are stripped, then tab, CR and LF
\* are removed.
clean_url(u) ==
    SelectSeq(SubSeq(u, FirstNotOf(u, 1, WHATWG_C0_CONTROL_OR_SPACE), Len(u)),
              LAMBDA c : c \notin UNSAFE_URL_BYTES_TO_REMOVE)

\* urlsplit: the text before the first ":" is a scheme.
has_scheme(url) ==
    LET colon == FirstOf(url, 1, {":"})
    IN /\ 1 < colon /\ colon <= Len(url)
       /\ url[1] \in Letters
       /\ \A i \in 1..(colon - 1) : url[i] \in SchemeChars

\* urlsplit: the scheme, in lower case, and what follows its ":".
scheme_of(url) ==
    IF has_scheme(url)
    THEN [i \in 1..(FirstOf(url, 1, {":"}) - 1) |-> lower(url[i])]
    ELSE <<>>

after_scheme(url) ==
    IF has_scheme(url) THEN SubSeq(url, FirstOf(url, 1, {":"}) + 1, Len(url)) ELSE url

\* urlsplit, _splitnetloc: after "//" the authority runs to the first "/",
\* "?" or "#".
has_netloc(url) == Len(url) >= 2 /\ url[1] = "/" /\ url[2] = "/"

netloc_of(url) ==
    IF has_netloc(url) THEN SubSeq(url, 3, FirstOf(url, 3, {"/", "?", "#"}) - 1)
    ELSE <<>>

after_netloc(url) ==
    IF has_netloc(url) THEN SubSeq(url, FirstOf(url, 3, {"/", "?", "#"}), Len(url))
    ELSE url

\* urllib.parse._checknetloc: the characters whose NFKC normal form holds
\* one of "/", "?", "#", "@", ":".
NFKC_UNSAFE ==
    { "\\u2047", "\\u2048", "\\u2049", "\\u2100", "\\u2101", "\\u2105",
      "\\u2106", "\\u2a74", "\\ufe13", "\\ufe16", "\\ufe55", "\\ufe56",
      "\\ufe5f", "\\ufe6b", "\\uff03", "\\uff0f", "\\uff1a", "\\uff1f",
      "\\uff20" }

\* urlsplit raises no ValueError for the authority: "[" and "]" come
\* together, the host between them is accepted, and no character of the
\* authority normalizes to a delimiter.
netloc_ok(netloc) ==
    LET afterOpen == SubSeq(netloc, FirstOf(netloc, 1, {"["}) + 1, Len(netloc))
        bracketed_host == SubSeq(afterOpen, 1, FirstOf(afterOpen, 1, {"]"}) - 1)
    IN /\ Contains(netloc, "[") = Contains(netloc, "]")
       /\ (Contains(netloc, "[") => check_bracketed_host(bracketed_host))
       /\ \A i \in 1..Len(netloc) : netloc[i] \notin NFKC_UNSAFE

\* urllib.parse._splitparams.
splitparams(url) ==
    LET slash == LastOf(url, {"/"})
    IN SubSeq(url, 1, FirstOf(url, IF slash = 0 THEN 1 ELSE slash, {";"}) - 1)

\* urlsplit, urlparse: the path ends at the first "#", then at the first
\* "?"; under a scheme of uses_params the ";parameters" of the last segment
\* are split off.
path_of(scheme, url) ==
    LET noFragment == SubSeq(url, 1, FirstOf(url, 1, {"#"}) - 1)
        noQuery == SubSeq(noFragment, 1, FirstOf(noFragment, 1, {"?"}) - 1)
    IN IF scheme \in uses_params /\ Contains(noQuery, ";")
       THEN splitparams(noQuery) ELSE noQuery

\* urlparse(uri).path, or the ValueError urlsplit raises for a malformed
\* bracketed host.
urlparse_path(u) ==
    LET url == clean_url(u)
    IN IF ~netloc_ok(netloc_of(after_scheme(url)))
       THEN [ok |-> FALSE]
       ELSE [ok |-> TRUE,
             path |-> path_of(scheme_of(url), after_netloc(after_scheme(url)))]

(***************************************************************************)
(* The two regular expressions of line 126.                                *)
(***************************************************************************)
\* A regex step: the literal lit at pos; the position after it, 0 on failure.
MatchLit(s, pos, lit) ==
    IF pos = 0 THEN 0
    ELSE IF pos + Len(lit) - 1 <= Len(s) /\ SubSeq(s, pos, pos + Len(lit) - 1) = lit
         THEN pos + Len(lit) ELSE 0

\* A regex step [^...]+: the longest non-empty run from pos of characters
\* outside the set stops; the position after it, 0 on failure. What follows
\* the run in the two patterns starts with a character of stops, so no
\* shorter run matches.
MatchRunUntil(s, pos, stops) ==
    IF pos = 0 THEN 0
    ELSE LET end == FirstOf(s, pos, stops)
         IN IF end > pos THEN end ELSE 0

\* A regex step \d+: the longest non-empty run from pos of characters of the
\* set cs; the position after it, 0 on failure. "$" follows the run in the
\* two patterns, and it does not match before a digit.
MatchRunOf(s, pos, cs) ==
    IF pos = 0 THEN 0
    ELSE LET end == FirstNotOf(s, pos, cs)
         IN IF end > pos THEN end ELSE 0

\* A regex step: "$", the end of the string or the place before a final "\n".
MatchEnd(s, pos) ==
    pos # 0 /\ (pos = Len(s) + 1 \/ (pos = Len(s) /\ s[pos] = "\n"))

Slash == {"/"}

NoMatch == [matched |-> FALSE]

\* re.match(r'^/orgs/([^/]+)/projects/(\d+)$', path): groups 1 and 2.
MatchOrgPattern(path) ==
    LET p1 == MatchLit(path, 1, <<"/", "o", "r", "g", "s", "/">>)
        p2 == MatchRunUntil(path, p1, Slash)
        p3 == MatchLit(path, p2, <<"/", "p", "r", "o", "j", "e", "c", "t", "s", "/">>)
        p4 == MatchRunOf(path, p3, Digits)
    IN IF MatchEnd(path, p4)
       THEN [matched |-> TRUE, g1 |-> SubSeq(path, p1, p2 - 1),
             g2 |-> SubSeq(path, p3, p4 - 1)]
       ELSE NoMatch

\* re.match(r'^/([^/]+/[^/]+)/projects/(\d+)$', path): groups 1 and 2.
MatchRepoPattern(path) ==
    LET p1 == MatchLit(path, 1, <<"/">>)
        p2 == MatchRunUntil(path, p1, Slash)
        p3 == MatchLit(path, p2, <<"/">>)
        p4 == MatchRunUntil(path, p3, Slash)
        p5 == MatchLit(path, p4, <<"/", "p", "r", "o", "j", "e", "c", "t", "s", "/">>)
        p6 == MatchRunOf(path, p5, Digits)
    IN IF MatchEnd(path, p6)
       THEN [matched |-> TRUE, g1 |-> SubSeq(path, p1, p4 - 1),
             g2 |-> SubSeq(path, p5, p6 - 1)]
       ELSE NoMatch

Returned(login, number) == [ok |-> TRUE, login |-> login, projectNumber |-> number]
Raised(kind) == [ok |-> FALSE, error |-> kind]

\* The parser with the owner/repo pattern tried before the organization one.
get_login_and_project_number_RepoFirst(u) ==
    LET parsed == urlparse_path(u)
        repo == MatchRepoPattern(parsed.path)
        matches == IF repo.matched THEN repo ELSE MatchOrgPattern(parsed.path)
    IN IF ~parsed.ok THEN Raised("ValueError")
       ELSE IF ~matches.matched THEN Raised("ValueError")
            ELSE IF Len(matches.g2) > MAX_STR_DIGITS THEN Raised("ValueError")
                 ELSE Returned(matches.g1, int(matches.g2))

\* Lines 123-134. A ValueError of urlparse propagates; no match raises the
\* ValueError of line 128; int() raises one for too long a number.
get_login_and_project_number_from_uri(u) ==
    LET parsed == urlparse_path(u)
        org == MatchOrgPattern(parsed.path)
        matches == IF org.matched THEN org ELSE MatchRepoPattern(parsed.path)
    IN IF ~parsed.ok THEN Raised("ValueError")
       ELSE IF ~matches.matched THEN Raised("ValueError")
            ELSE IF Len(matches.g2) > MAX_STR_DIGITS THEN Raised("ValueError")
                 ELSE Returned(matches.g1, int(matches.g2))

\* The URIs tried: a prefix, up to MaxSegments segments joined by "/", and a
\* suffix.
Seg_orgs == <<"o", "r", "g", "s">>
Seg_projects == <<"p", "r", "o", "j", "e", "c", "t", "s">>
Seg_a == <<"a">>
Seg_42 == <<"4", "2">>
Seg_07 == <<"0", "7">>
Segments == {Seg_orgs, Seg_projects, Seg_a, Seg_42, Seg_07}
Prefixes ==
    { <<>>, <<"/">>,
      <<"h", "t", "t", "p", "s", ":", "/", "/", "g", "i", "t", "h", "u", "b", ".", "c", "o", "m", "/">>,
      <<"\\x0b", " ", "e", ":", "/">>,
      <<"/", "/", "[", "/">> }
Suffixes == {<<>>, <<"/">>, <<"?", "a">>, <<"\n">>, <<";", "x">>, <<"\\u0663">>}

RECURSIVE JoinSegments(_)
JoinSegments(segs) ==
    IF segs = <<>> THEN <<>>
    ELSE IF Len(segs) = 1 THEN segs[1]
         ELSE segs[1] \o <<"/">> \o JoinSegments(Tail(segs))

URIs == { pre \o JoinSegments(segs) \o suf :
            pre \in Prefixes, segs \in SeqsUpTo(Segments, MaxSegments),
            suf \in Suffixes }

Pending == [ok |-> FALSE, error |-> "not called"]

UriInit == uri \in URIs /\ uri_result = Pending
UriIdle == uri = <<>> /\ uri_result = [ok |-> FALSE, error |-> "idle"]

\* One call of get_login_and_project_number_from_uri(uri).
ParseURI ==
    /\ uri_result = Pending
    /\ uri_result' = get_login_and_project_number_from_uri(uri)
    /\ UNCHANGED uri
    /\ UNCHANGED <<md_vars, card_vars, cd_vars, imp_vars>>

(***************************************************************************)
(* The legacy card formatter: get_card_content and format_card.            *)
(* Card notes, titles, URLs and lines are sequences of one-character       *)
(* strings.                                                                *)
(***************************************************************************)
\* Python's None where a character sequence is expected (a note, a returned
\* line): no character sequence equals it.
NoneText == <<"<None>">>

\* card.get_content() returning None, and card.get_content() raising.
ContentNone == [is_none |-> TRUE]
ContentRaises == [raises |-> TRUE]

Content(title, number, url, state) ==
    [title |-> title, number |-> number, html_url |-> url, state |-> state]

Contents ==
    { Content(<<"T">>, 7, <<"u">>, "open"),
      Content(<<"T">>, 12, <<"u">>, "closed"),
      Content(<<" ", "<", "!", "[", "C", "D", "A", "T", "A", "[", "X", "]", "]", ">">>, 3, <<"u">>, "closed") }

\* What one invocation of card.get_content() can do.
Outcomes == Contents \cup {ContentNone, ContentRaises}

CardIds == {1, 2}
Notes == { NoneText, <<>>, <<"n">>, <<"\\x0b", "n", " ", "\n">>, <<"a", "\n", "b">>,
           <<"<", "!", "[", "C", "D", "A", "T", "A", "[", "x", "]", "]", ">">> }
Cards == [id : CardIds, note : Notes]

\* A lookup that does not cache a failure.
get_card_content_NoFailureCache(memo, c, outcome) ==
    IF c.id \in DOMAIN memo
    THEN [memo |-> memo, value |-> memo[c.id], invoked |-> FALSE]
    ELSE IF outcome = ContentRaises
         THEN [memo |-> memo, value |-> ContentNone, invoked |-> TRUE]
         ELSE [memo |-> (c.id :> outcome) @@ memo, value |-> outcome, invoked |-> TRUE]

\* Lines 31-47: the memo before the call, the card and what get_content()
\* does if it is invoked; the memo after the call, the value returned, and
\* whether get_content() was invoked.
get_card_content(memo, c, outcome) ==
    IF c.id \in DOMAIN memo
    THEN [memo |-> memo, value |-> memo[c.id], invoked |-> FALSE]
    ELSE LET v == IF outcome = ContentRaises THEN ContentNone ELSE outcome
         IN [memo |-> (c.id :> v) @@ memo, value |-> v, invoked |-> TRUE]

\* The characters str.strip() removes: the whitespace of Unicode.
Whitespace ==
    { "\t", "\n", "\\x0b", "\f", "\r", "\\x1c", "\\x1d", "\\x1e", "\\x1f",
      " ", "\\x85", "\\xa0", "\\u1680", "\\u2000", "\\u2001", "\\u2002",
      "\\u2003", "\\u2004", "\\u2005", "\\u2006", "\\u2007", "\\u2008",
      "\\u2009", "\\u200a", "\\u2028", "\\u2029", "\\u202f", "\\u205f",
      "\\u3000" }

\* str.strip().
strip(s) ==
    LET keep == {i \in 1..Len(s) : s[i] \notin Whitespace}
    IN IF keep = {} THEN <<>>
       ELSE SubSeq(s, CHOOSE i \in keep : \A j \in keep : i <= j,
                      CHOOSE i \in keep : \A j \in keep : j <= i)

CDATA_OPEN == <<"<", "!", "[", "C", "D", "A", "T", "A", "[">>
CDATA_CLOSE == <<"]", "]", ">">>

\* The first position at or after pos where pat stands in s, 0 when nowhere.
FindSub(s, pos, pat) ==
    LET at == {i \in pos..(Len(s) - Len(pat) + 1) : SubSeq(s, i, i + Len(pat) - 1) = pat}
    IN IF at = {} THEN 0 ELSE CHOOSE i \in at : \A j \in at : i <= j

\* The last position at or after pos where pat stands in s, 0 when nowhere.
FindLastSub(s, pos, pat) ==
    LET at == {i \in pos..(Len(s) - Len(pat) + 1) : SubSeq(s, i, i + Len(pat) - 1) = pat}
    IN IF at = {} THEN 0 ELSE CHOOSE i \in at : \A j \in at : j <= i

\* The substitution with a greedy (.*) in place of (.*?).
RECURSIVE StripCDATAGreedyFrom(_, _)
StripCDATAGreedyFrom(s, pos) ==
    LET i == FindSub(s, pos, CDATA_OPEN)
        j == IF i = 0 THEN 0 ELSE FindLastSub(s, i + Len(CDATA_OPEN), CDATA_CLOSE)
    IN IF i = 0 \/ j = 0 THEN SubSeq(s, pos, Len(s))
       ELSE SubSeq(s, pos, i - 1) \o SubSeq(s, i + Len(CDATA_OPEN), j - 1)
            \o StripCDATAGreedyFrom(s, j + Len(CDATA_CLOSE))
StripCDATAGreedy(s) == StripCDATAGreedyFrom(s, 1)

\* Line 65, from position pos on: the leftmost opener that a closer follows
\* matches up to the first such closer (.*? is lazy and, under DOTALL, crosses
\* newlines); the match is replaced by its group and the scan goes on after it.
RECURSIVE StripCDATAFrom(_, _)
StripCDATAFrom(s, pos) ==
    LET i == FindSub(s, pos, CDATA_OPEN)
        j == IF i = 0 THEN 0 ELSE FindSub(s, i + Len(CDATA_OPEN), CDATA_CLOSE)
    IN IF i = 0 \/ j = 0 THEN SubSeq(s, pos, Len(s))
       ELSE SubSeq(s, pos, i - 1) \o SubSeq(s, i + Len(CDATA_OPEN), j - 1)
            \o StripCDATAFrom(s, j + Len(CDATA_CLOSE))

\* Line 65: re.sub(r'<!\[CDATA\[(.*?)\]\]>', '\g<1>', line, MULTILINE | DOTALL).
StripCDATA(s) == StripCDATAFrom(s, 1)

\* Line 72: line.replace("\n", "\n  ").
RECURSIVE IndentContinuation(_)
IndentContinuation(s) ==
    IF s = <<>> THEN <<>>
    ELSE (IF Head(s) = "\n" THEN <<"\n", " ", " ">> ELSE <<Head(s)>>)
         \o IndentContinuation(Tail(s))

DigitChar(d) ==
    CASE d = 0 -> "0" [] d = 1 -> "1" [] d = 2 -> "2" [] d = 3 -> "3"
      [] d = 4 -> "4" [] d = 5 -> "5" [] d = 6 -> "6" [] d = 7 -> "7"
      [] d = 8 -> "8" [] d = 9 -> "9"

\* The decimal text of an integer, as an f-string formats it.
RECURSIVE str(_)
str(n) ==
    IF n < 0 THEN <<"-">> \o str(-n)
    ELSE IF n < 10 THEN <<DigitChar(n)>>
         ELSE str(n \div 10) \o <<DigitChar(n % 10)>>

\* f"{x}" of an Optional[str]: the text itself, "None" for None.
Format(x) == IF x = NoneText THEN <<"N", "o", "n", "e">> ELSE x

\* Line 54.
IssueLine(content) ==
    Format(content.title)
    \o <<" ", "-", " ", "[", "I", "s", "s", "u", "e", " ", "#">> \o str(content.number)
    \o <<"]", "(">> \o Format(content.html_url) \o <<")">>

\* Lines 61-74: from the chosen line to the value returned.
RenderLine(line) ==
    LET stripped == StripCDATA(strip(Format(line)))
    IN IF stripped = <<>> THEN NoneText
       ELSE <<"*", " ">> \o IndentContinuation(stripped)

\* A formatter that strikes nothing through.
format_card_NoStrike(content, note) ==
    RenderLine(IF content # ContentNone THEN IssueLine(content) ELSE note)

\* Lines 53-74: from the content get_card_content returned and the card's
\* note to the value format_card returns.
format_card(content, note) ==
    RenderLine(IF content # ContentNone
               THEN IF content.state = "closed"
                    THEN <<"~", "~">> \o IssueLine(content) \o <<"~", "~">>
                    ELSE IssueLine(content)
               ELSE note)

CardInit ==
    /\ card_content_memo = <<>>
    /\ get_content_calls = [i \in CardIds |-> 0]
    /\ first_outcome = [i \in CardIds |-> ContentNone]
    /\ lookups = [i \in CardIds |-> 0]
    /\ card = [id |-> 1, note |-> NoneText]
    /\ last_op = "none"
    /\ content_returned = ContentNone
    /\ line_returned = NoneText

\* The bookkeeping of one lookup: the memo, the number of get_content()
\* invocations per card id and the outcome of the first one, the number of
\* lookups per card id, and the value returned.
Lookup(c, outcome) ==
    LET r == get_card_content(card_content_memo, c, outcome)
    IN /\ lookups[1] + lookups[2] < MaxLookups
       /\ card_content_memo' = r.memo
       /\ content_returned' = r.value
       /\ lookups' = [lookups EXCEPT ![c.id] = @ + 1]
       /\ get_content_calls' =
             IF r.invoked THEN [get_content_calls EXCEPT ![c.id] = @ + 1]
             ELSE get_content_calls
       /\ first_outcome' =
             IF r.invoked /\ get_content_calls[c.id] = 0
             THEN [first_outcome EXCEPT ![c.id] = outcome]
             ELSE first_outcome
       /\ card' = c

\* One call of get_card_content(c).
GetCardContent ==
    \E c \in Cards, outcome \in Outcomes :
        /\ Lookup(c, outcome)
        /\ last_op' = "get_card_content"
        /\ UNCHANGED line_returned
        /\ UNCHANGED <<md_vars, uri_vars, cd_vars, imp_vars>>

\* One call of format_card(c).
FormatCard ==
    \E c \in Cards, outcome \in Outcomes :
        /\ Lookup(c, outcome)
        /\ last_op' = "format_card"
        /\ line_returned' = format_card(content_returned', c.note)
        /\ UNCHANGED <<md_vars, uri_vars, cd_vars, imp_vars>>

(***************************************************************************)
(* The CDATA substitution on its own, applied once and again.              *)
(***************************************************************************)
Pieces == {CDATA_OPEN, CDATA_CLOSE, <<"a">>, <<"b">>, <<"\n">>}

CdInit ==
    /\ cdata_pieces \in SeqsUpTo(Pieces, MaxPieces)
    /\ stripped_once = NoneText
    /\ stripped_twice = NoneText
    /\ cd_pc = "start"

CdIdle ==
    /\ cdata_pieces = <<>>
    /\ stripped_once = NoneText
    /\ stripped_twice = NoneText
    /\ cd_pc = "idle"

\* The substitution applied to the text.
StripOnce ==
    /\ cd_pc = "start"
    /\ stripped_once' = StripCDATA(Concat(cdata_pieces))
    /\ cd_pc' = "once"
    /\ UNCHANGED <<cdata_pieces, stripped_twice>>
    /\ UNCHANGED <<md_vars, uri_vars, card_vars, imp_vars>>

\* The substitution applied to its own result.
StripAgain ==
    /\ cd_pc = "once"
    /\ stripped_twice' = StripCDATA(stripped_once)
    /\ cd_pc' = "twice"
    /\ UNCHANGED <<cdata_pieces, stripped_once>>
    /\ UNCHANGED <<md_vars, uri_vars, card_vars, imp_vars>>

(***************************************************************************)
(* The project resolver and the issue importer. Every network call is one  *)
(* step; what the server answers is chosen freely among the answers below. *)
(***************************************************************************)
\* JSON null, and HTTP responses: a status code and, for 200, the parsed body.
JsonNull == [json_null |-> TRUE]
Response(code, body) == [status_code |-> code, body |-> body]

\* The outcome of an expression: a value, or the exception it raised.
Value(v) == [ok |-> TRUE, value |-> v]
Raise(type) == [ok |-> FALSE, type |-> type]

\* obj[key] on parsed JSON: None is not subscriptable (TypeError), a missing
\* key is a KeyError; an exception raised earlier in the chain goes through.
Subscript(r, key) ==
    IF ~r.ok THEN r
    ELSE IF r.value = JsonNull THEN Raise("TypeError")
         ELSE IF key \notin DOMAIN r.value THEN Raise("KeyError")
              ELSE Value(r.value[key])

\* Lines 113-121: the body of a 200 response, an Exception otherwise.
graphql_query(response) ==
    IF response.status_code = 200 THEN Value(response.body) ELSE Raise("Exception")

NodeIds == {"PVT_1"}
ItemIds == {"PVTI_1", "PVTI_2"}

\* Answers to the project query: the node id; a 200 whose data lacks the
\* project, the organization, or is missing altogether; a non-200.
ResolveResponses ==
    { Response(200, [data |-> [organization |-> [projectV2 |-> [id |-> n]]]]) :
        n \in NodeIds }
    \cup { Response(200, [data |-> [organization |-> [projectV2 |-> JsonNull]],
                         errors |-> "NOT_FOUND"]),
           Response(200, [data |-> [organization |-> JsonNull], errors |-> "NOT_FOUND"]),
           Response(200, [errors |-> "INSUFFICIENT_SCOPES"]),
           Response(401, JsonNull) }

\* Answers to the items query.
ItemsResponses == { Response(200, [data |-> [node |-> JsonNull]]), Response(502, JsonNull) }

\* Answers to the add-item mutation.
AddResponses ==
    { Response(200, [data |-> [addProjectV2ItemById |-> [item |-> [id |-> i]]]]) :
        i \in ItemIds }
    \cup { Response(200, [data |-> [addProjectV2ItemById |-> JsonNull],
                         errors |-> "NOT_FOUND"]),
           Response(403, JsonNull) }

\* Answers to the status-update mutation.
UpdateResponses ==
    { Response(200, [data |-> [updateProjectV2ItemField |-> JsonNull],
                     errors |-> "NOT_FOUND"]),
      Response(200, [data |-> [updateProjectV2ItemField |-> [item |-> [id |-> "PVTI"]]]]),
      Response(500, JsonNull) }

\* Lines 136-154, given the answer to the query if one is sent: the node id,
\* or the exception raised. The URI error is raised before any query.
get_project_node_id_from_uri(u, response) ==
    IF ~get_login_and_project_number_from_uri(u).ok THEN Raise("ValueError")
    ELSE Subscript(Subscript(Subscript(Subscript(
             graphql_query(response), "data"), "organization"), "projectV2"), "id")

\* Line 290.
AddedItemId(response) ==
    Subscript(Subscript(Subscript(Subscript(
        Value(response.body), "data"), "addProjectV2ItemById"), "item"), "id")

Issues == { [node_id |-> "I_1", title |-> "bug"],
            [node_id |-> "I_2", title |-> "feature"],
            [node_id |-> "I_3", title |-> "bug"] }

ProjectURIs == { <<"h", "t", "t", "p", "s", ":", "/", "/", "g", "i", "t", "h", "u", "b", ".", "c", "o", "m", "/", "o", "r", "g", "s", "/", "a", "/", "p", "r", "o", "j", "e", "c", "t", "s", "/", "4", "2">>,
                 <<"h", "t", "t", "p", "s", ":", "/", "/", "g", "i", "t", "h", "u", "b", ".", "c", "o", "m", "/", "a">> }

NoError == [type |-> "none"]

\* The calls made so far, each with the status of its answer.
QueryNodeCall(code, id) == [kind |-> "query_node", status_code |-> code, node_id |-> id]
QueryItemsCall(code, id) == [kind |-> "query_items", status_code |-> code, node_id |-> id]
AddCall(code, projectId, contentId, returned) ==
    [kind |-> "add", status_code |-> code, projectId |-> projectId,
     contentId |-> contentId, returned |-> returned]
UpdateCall(code, itemId, fieldId, value) ==
    [kind |-> "update", status_code |-> code, itemId |-> itemId,
     fieldId |-> fieldId, value |-> value]

ImpInit ==
    /\ project_uri \in ProjectURIs
    /\ issues \in SeqsUpTo(Issues, MaxIssues)
    /\ imp_pc = "get_project_contents"
    /\ issue_index = 0
    /\ calls = <<>>
    /\ project_node_id = None
    /\ item_id = None
    /\ board = <<>>
    /\ imp_error = NoError

ImpIdle ==
    /\ project_uri = <<>>
    /\ issues = <<>>
    /\ imp_pc = "idle"
    /\ issue_index = 0
    /\ calls = <<>>
    /\ project_node_id = None
    /\ item_id = None
    /\ board = <<>>
    /\ imp_error = NoError

NotImporting == UNCHANGED <<md_vars, uri_vars, card_vars, cd_vars>>

\* One resolution of the project node (lines 136-154) at import step `at`,
\* going on to step `next` with the node id in project_node_id.
ResolveStep(at, next) ==
    /\ imp_pc = at
    /\ \E response \in ResolveResponses :
          LET r == get_project_node_id_from_uri(project_uri, response)
              sent == get_login_and_project_number_from_uri(project_uri).ok
          IN /\ calls' = IF sent
                         THEN Append(calls, QueryNodeCall(response.status_code,
                                                          IF r.ok THEN r.value ELSE None))
                         ELSE calls
             /\ IF r.ok
                THEN /\ project_node_id' = r.value
                     /\ imp_pc' = next
                     /\ imp_error' = imp_error
                ELSE /\ project_node_id' = project_node_id
                     /\ imp_pc' = "raised"
                     /\ imp_error' = [type |-> r.type, op |-> "query_node"]
    /\ UNCHANGED <<project_uri, issues, issue_index, item_id, board>>
    /\ NotImporting

\* Line 251 -> line 157: get_project_contents resolves the node first.
ResolveForContents == ResolveStep("get_project_contents", "query_items")

\* Line 251 -> lines 159-235: the items query of get_project_contents.
QueryItems ==
    /\ imp_pc = "query_items"
    /\ \E response \in ItemsResponses :
          /\ calls' = Append(calls, QueryItemsCall(response.status_code, project_node_id))
          /\ IF graphql_query(response).ok
             THEN imp_pc' = "resolve" /\ imp_error' = imp_error
             ELSE /\ imp_pc' = "raised"
                  /\ imp_error' = [type |-> "Exception", op |-> "query_items"]
    /\ UNCHANGED <<project_uri, issues, issue_index, project_node_id, item_id, board>>
    /\ NotImporting

\* Line 252: the node id the mutations use.
ResolveProjectNode == ResolveStep("resolve", "loop")

\* Line 254: the for loop takes the next issue, or the function returns.
NextIssue ==
    /\ imp_pc = "loop"
    /\ IF issue_index < Len(issues)
       THEN issue_index' = issue_index + 1 /\ imp_pc' = "add"
       ELSE issue_index' = issue_index /\ imp_pc' = "returned"
    /\ UNCHANGED <<project_uri, issues, calls, project_node_id, item_id, board, imp_error>>
    /\ NotImporting

\* An add-item step that goes on to the status update whatever the status.
AddItemIgnoringStatus ==
    /\ imp_pc = "add"
    /\ \E response \in AddResponses :
          LET issue == issues[issue_index]
              id == AddedItemId(response)
              got == response.status_code = 200 /\ id.ok
          IN /\ calls' = Append(calls, AddCall(response.status_code, project_node_id,
                                               issue.node_id,
                                               IF got THEN id.value ELSE None))
             /\ item_id' = IF got THEN id.value ELSE "PVTI_1"
             /\ board' = IF got THEN Append(board, [item_id |-> id.value,
                                      content_id |-> issue.node_id, status |-> None])
                          ELSE board
             /\ imp_pc' = "update"
             /\ imp_error' = imp_error
    /\ UNCHANGED <<project_uri, issues, issue_index, project_node_id>>
    /\ NotImporting

\* Lines 256-275 and 290: the add-item mutation for the current issue. A
\* non-200 raises the error that names the issue's title; a 200 whose body
\* holds no item id raises at line 290; otherwise the server has added the
\* item and its id is kept for the status update.
AddItem ==
    /\ imp_pc = "add"
    /\ \E response \in AddResponses :
          LET issue == issues[issue_index]
              id == AddedItemId(response)
              got == response.status_code = 200 /\ id.ok
          IN /\ calls' = Append(calls, AddCall(response.status_code, project_node_id,
                                               issue.node_id,
                                               IF got THEN id.value ELSE None))
             /\ item_id' = IF got THEN id.value ELSE item_id
             /\ board' = IF got THEN Append(board, [item_id |-> id.value,
                                      content_id |-> issue.node_id, status |-> None])
                          ELSE board
             /\ IF response.status_code # 200
                THEN /\ imp_pc' = "raised"
                     /\ imp_error' = [type |-> "Exception", op |-> "add",
                                       title |-> issue.title,
                                       status_code |-> response.status_code]
                ELSE IF ~id.ok
                     THEN /\ imp_pc' = "raised"
                          /\ imp_error' = [type |-> id.type, op |-> "item_id"]
                     ELSE imp_pc' = "update" /\ imp_error' = imp_error
    /\ UNCHANGED <<project_uri, issues, issue_index, project_node_id>>
    /\ NotImporting

\* The server's effect of a status update that took.
SetStatus(b, id, value) ==
    [k \in 1..Len(b) |-> IF b[k].item_id = id THEN [b[k] EXCEPT !.status = value] ELSE b[k]]

\* A status update aimed at the issue's node id in place of the item's id.
UpdateStatusOfIssueNode ==
    /\ imp_pc = "update"
    /\ \E response \in UpdateResponses :
          LET issue == issues[issue_index]
              took == /\ response.status_code = 200
                      /\ response.body.data.updateProjectV2ItemField # JsonNull
          IN /\ calls' = Append(calls, UpdateCall(response.status_code, issue.node_id,
                                                  "Status", "Extracted"))
             /\ board' = IF took THEN SetStatus(board, issue.node_id, "Extracted") ELSE board
             /\ IF response.status_code # 200
                THEN /\ imp_pc' = "raised"
                     /\ imp_error' = [type |-> "Exception", op |-> "update",
                                       title |-> issue.title,
                                       status_code |-> response.status_code]
                ELSE imp_pc' = "loop" /\ imp_error' = imp_error
    /\ UNCHANGED <<project_uri, issues, issue_index, project_node_id, item_id>>
    /\ NotImporting

\* Lines 277-302: the status-update mutation for the item just added, with
\* the field named "Status" and the value "Extracted". A non-200 raises the
\* error that names the issue's title; a 200 is not looked into.
UpdateStatus ==
    /\ imp_pc = "update"
    /\ \E response \in UpdateResponses :
          LET issue == issues[issue_index]
              took == /\ response.status_code = 200
                      /\ response.body.data.updateProjectV2ItemField # JsonNull
          IN /\ calls' = Append(calls, UpdateCall(response.status_code, item_id,
                                                  "Status", "Extracted"))
             /\ board' = IF took THEN SetStatus(board, item_id, "Extracted") ELSE board
             /\ IF response.status_code # 200
                THEN /\ imp_pc' = "raised"
                     /\ imp_error' = [type |-> "Exception", op |-> "update",
                                       title |-> issue.title,
                                       status_code |-> response.status_code]
                ELSE imp_pc' = "loop" /\ imp_error' = imp_error
    /\ UNCHANGED <<project_uri, issues, issue_index, project_node_id, item_id>>
    /\ NotImporting

ImportNext ==
    \/ ResolveForContents
    \/ QueryItems
    \/ ResolveProjectNode
    \/ NextIssue
    \/ AddItem
    \/ UpdateStatus

InitMarkdown == MdInit /\ UriIdle /\ CardInit /\ CdIdle /\ ImpIdle
SpecMarkdown == InitMarkdown /\ [][ConvertToMarkdown]_vars

InitURI == MdIdle /\ UriInit /\ CardInit /\ CdIdle /\ ImpIdle
SpecURI == InitURI /\ [][ParseURI]_vars

InitCards == MdIdle /\ UriIdle /\ CardInit /\ CdIdle /\ ImpIdle
SpecCards == InitCards /\ [][GetCardContent \/ FormatCard]_vars

InitCDATA == MdIdle /\ UriIdle /\ CardInit /\ CdInit /\ ImpIdle
SpecCDATA == InitCDATA /\ [][StripOnce \/ StripAgain]_vars

InitImport == MdIdle /\ UriIdle /\ CardInit /\ CdIdle /\ ImpInit
SpecImport == InitImport /\ [][ImportNext]_vars

(***************************************************************************)
(* Properties of convert_to_markdown.                                      *)
(***************************************************************************)
Nodes == json_data.data.node.items.nodes
Fields(item) == item.fieldValues.nodes

\* The position of the last field value of the item with this field name, 0
\* when it has none.
LastIndex(item, fname) ==
    LET at == {i \in 1..Len(Fields(item)) : Fields(item)[i].field = fname}
    IN IF at = {} THEN 0 ELSE CHOOSE i \in at : \A j \in at : j <= i

StatusOf(item) ==
    IF LastIndex(item, "Status") = 0 THEN None
    ELSE Fields(item)[LastIndex(item, "Status")].name

TitleOf(item) ==
    IF LastIndex(item, "Title") = 0 THEN None
    ELSE Fields(item)[LastIndex(item, "Title")].text

Categorized(item) == Truthy(StatusOf(item)) /\ Truthy(TitleOf(item))

\* The item has a "Status" field value carrying a name, and a "Title" field
\* value carrying a text.
HasStatusValue(item) ==
    \E i \in 1..Len(Fields(item)) :
        Fields(item)[i].field = "Status" /\ Fields(item)[i].name # None
HasTitleValue(item) ==
    \E i \in 1..Len(Fields(item)) :
        Fields(item)[i].field = "Title" /\ Fields(item)[i].text # None
HasBoth(item) == HasStatusValue(item) /\ HasTitleValue(item)

Payloads == {None, "", "Todo", "Done", "A", "B", "C"}

\* How many times title t stands under status s.
TitleCount(cat, s, t) ==
    Cardinality({ p \in (1..Len(cat)) \X (1..(MaxItems + 1)) :
                    /\ cat[p[1]].status = s
                    /\ p[2] <= Len(cat[p[1]].titles)
                    /\ cat[p[1]].titles[p[2]] = t })

TotalTitles(cat) ==
    Cardinality({ p \in (1..Len(cat)) \X (1..(MaxItems + 1)) :
                    p[2] <= Len(cat[p[1]].titles) })

\* C2: an item that lacks a "Status" field value or lacks a "Title" field
\* value never appears under any status heading: the categories and the
\* Markdown are those of the board with these items taken away, and there are
\* no more task lines than items with both.
C2_IncompleteItemsNeverAppear ==
    md_pc = "done" =>
        LET kept == SelectSeq(Nodes, HasBoth)
        IN /\ categorized_items = Categorize(kept, 1, <<>>)
           /\ markdown_output = convert_to_markdown(Project(kept))
           /\ TotalTitles(categorized_items) <= Len(kept)
           /\ (kept = <<>> => markdown_output = "# Project Board Status\n\n")

\* A board whose first item has a Status but no Title and whose second item
\* is complete has been converted.
C2_Witness ==
    /\ md_pc = "done"
    /\ Len(Nodes) = 2
    /\ HasStatusValue(Nodes[1]) /\ ~HasTitleValue(Nodes[1])
    /\ HasBoth(Nodes[2])
    /\ TotalTitles(categorized_items) = 1

\* The placed items' statuses in the order of their first occurrence.
PlacedAt(nodes) == {k \in 1..Len(nodes) : Categorized(nodes[k])}
StatusesOf(nodes) == {StatusOf(nodes[k]) : k \in PlacedAt(nodes)}
FirstAt(nodes, s) ==
    CHOOSE k \in PlacedAt(nodes) :
        /\ StatusOf(nodes[k]) = s
        /\ \A j \in PlacedAt(nodes) : StatusOf(nodes[j]) = s => k <= j
FirstSeenOrder(nodes) ==
    [r \in 1..Cardinality(StatusesOf(nodes)) |->
        CHOOSE s \in StatusesOf(nodes) :
            Cardinality({s2 \in StatusesOf(nodes) :
                           FirstAt(nodes, s2) < FirstAt(nodes, s)}) = r - 1]

\* The task lines of status s: one per placed item of that status, in item
\* order.
RECURSIVE TaskLines(_, _, _)
TaskLines(nodes, k, s) ==
    IF k > Len(nodes) THEN ""
    ELSE (IF Categorized(nodes[k]) /\ StatusOf(nodes[k]) = s
          THEN "- [ ] " \o TitleOf(nodes[k]) \o "\n" ELSE "")
         \o TaskLines(nodes, k + 1, s)

RECURSIVE SectionsInOrder(_, _, _)
SectionsInOrder(nodes, order, r) ==
    IF r > Len(order) THEN ""
    ELSE "## " \o order[r] \o "\n" \o TaskLines(nodes, 1, order[r]) \o "\n"
         \o SectionsInOrder(nodes, order, r + 1)

BoardItem(s, t) ==
    Item(<<FieldValue("Status", s, None), FieldValue("Title", None, t)>>)
ScenarioBoard ==
    <<BoardItem("Todo", "A"), BoardItem("Done", "B"), BoardItem("Todo", "C")>>

\* C3: the output is the fixed header, then one section per distinct status
\* in first-seen order, each with one task line per categorized item of that
\* status, in item order, duplicates kept.
C3_FirstSeenOrderNoSortNoDedup ==
    md_pc = "done" =>
        /\ markdown_output =
              "# Project Board Status\n\n"
              \o SectionsInOrder(Nodes, FirstSeenOrder(Nodes), 1)
        /\ TotalTitles(categorized_items) = Cardinality(PlacedAt(Nodes))
        /\ (Nodes = ScenarioBoard =>
              markdown_output =
                "# Project Board Status\n\n## Todo\n- [ ] A\n- [ ] C\n\n## Done\n- [ ] B\n\n")

\* Todo/A, Done/B, Todo/C has been converted.
C3_Witness ==
    /\ md_pc = "done"
    /\ Nodes = ScenarioBoard
    /\ Len(categorized_items) = 2
    /\ categorized_items[1].titles = <<"A", "C">>

\* C10: the last "Status" field value alone gives the status (its name) and
\* the last "Title" field value alone gives the title (its text); the item
\* stands once under that status with that title when both are non-empty, and
\* nowhere otherwise.
C10_LastFieldValueWins ==
    md_pc = "done" =>
        \A s \in Payloads, t \in Payloads :
            TitleCount(categorized_items, s, t) =
                Cardinality({k \in 1..Len(Nodes) :
                               /\ Categorized(Nodes[k])
                               /\ StatusOf(Nodes[k]) = s
                               /\ TitleOf(Nodes[k]) = t})

\* An item with two named "Status" field values, "Todo" before "Done", and
\* a title has been converted: it stands under Done.
C10_Witness ==
    /\ md_pc = "done"
    /\ Len(Nodes) = 1
    /\ \E i, j \in 1..Len(Fields(Nodes[1])) :
          /\ i < j
          /\ Fields(Nodes[1])[i] = FieldValue("Status", "Todo", None)
          /\ Fields(Nodes[1])[j] = FieldValue("Status", "Done", None)
    /\ Len(categorized_items) = 1
    /\ categorized_items[1].status = "Done"

(***************************************************************************)
(* Properties of get_login_and_project_number_from_uri.                    *)
(***************************************************************************)
\* The path of the URI; a URI that urlparse rejects has none.
Path == LET parsed == urlparse_path(uri)
        IN IF parsed.ok THEN parsed.path ELSE NoneText
\* The numbers of the URIs tried: 42 and 07, alone or followed by U+0663,
\* the Arabic-Indic digit three.
NumberSegments == {Seg_42, Seg_07, Seg_42 \o <<"\\u0663">>, Seg_07 \o <<"\\u0663">>}
NumberOf(n) ==
    CASE n = Seg_42 -> 42
      [] n = Seg_07 -> 7
      [] n = Seg_42 \o <<"\\u0663">> -> 423
      [] n = Seg_07 \o <<"\\u0663">> -> 73
OrgPath(L, N) == <<"/", "o", "r", "g", "s", "/">> \o L \o <<"/", "p", "r", "o", "j", "e", "c", "t", "s", "/">> \o N
RepoPath(O, R, N) == <<"/">> \o O \o <<"/">> \o R \o <<"/", "p", "r", "o", "j", "e", "c", "t", "s", "/">> \o N
IsOrgPath(path) == \E L \in Segments, N \in NumberSegments : path = OrgPath(L, N)
IsRepoPath(path) ==
    \E O \in Segments, R \in Segments, N \in NumberSegments : path = RepoPath(O, R, N)

\* C4 as stated: /orgs/{L}/projects/{N} gives (L, N), /{O}/{R}/projects/{N}
\* gives ("O/R", N) for every O, and every other string raises the
\* invalid-URI error.
C4_Original ==
    uri_result # Pending =>
        LET path == Path
        IN /\ \A L \in Segments, N \in NumberSegments :
                 path = OrgPath(L, N) => uri_result = Returned(L, NumberOf(N))
           /\ \A O \in Segments, R \in Segments, N \in NumberSegments :
                 path = RepoPath(O, R, N) =>
                     uri_result = Returned(O \o <<"/">> \o R, NumberOf(N))
           /\ (~IsOrgPath(path) /\ ~IsRepoPath(path) =>
                 uri_result = Raised("ValueError"))

\* C4 amended: /orgs/{L}/projects/{N} gives (L, N); /{O}/{R}/projects/{N}
\* gives ("O/R", N) when O is not the literal "orgs"; every other string
\* raises the invalid-URI error (ValueError).
C4_OrgPatternFirst ==
    uri_result # Pending =>
        LET path == Path
        IN /\ \A L \in Segments, N \in NumberSegments :
                 path = OrgPath(L, N) => uri_result = Returned(L, NumberOf(N))
           /\ \A O \in Segments \ {Seg_orgs}, R \in Segments, N \in NumberSegments :
                 path = RepoPath(O, R, N) =>
                     uri_result = Returned(O \o <<"/">> \o R, NumberOf(N))
           /\ (~IsOrgPath(path) /\ ~IsRepoPath(path) =>
                 uri_result = Raised("ValueError"))

\* https://github.com/orgs/a/projects/07 has been parsed to ("a", 7).
C4_Witness ==
    /\ uri = <<"h", "t", "t", "p", "s", ":", "/", "/", "g", "i", "t", "h", "u", "b", ".", "c", "o", "m", "/", "o", "r", "g", "s", "/", "a", "/", "p", "r", "o", "j", "e", "c", "t", "s", "/", "0", "7">>
    /\ uri_result = Returned(Seg_a, 7)

(***************************************************************************)
(* Properties of get_card_content and format_card.                         *)
(***************************************************************************)
\* What the memo holds after a first get_content() with this outcome.
Cached(outcome) == IF outcome = ContentRaises THEN ContentNone ELSE outcome

\* C6: get_content() is invoked at most once per card id; the first outcome
\* is cached, a failure as None, and every call for that id returns it.
C6_ContentResolvedOncePerCard ==
    /\ \A i \in CardIds :
          /\ get_content_calls[i] <= 1
          /\ (lookups[i] >= 1 =>
                /\ get_content_calls[i] = 1
                /\ i \in DOMAIN card_content_memo
                /\ card_content_memo[i] = Cached(first_outcome[i]))
    /\ (last_op # "none" => content_returned = Cached(first_outcome[card.id]))

\* A card id whose first get_content() raised has been looked up again: the
\* call returned None and get_content() was not invoked a second time.
C6_Witness ==
    /\ lookups[card.id] >= 2
    /\ first_outcome[card.id] = ContentRaises
    /\ get_content_calls[card.id] = 1
    /\ content_returned = ContentNone

\* C7: format_card renders the issue line of a closed linked issue/PR wrapped
\* in ~~...~~, the same issue line unwrapped when the content is not closed,
\* and the card's note text when there is no content.
C7_StrikethroughWhenClosed ==
    last_op = "format_card" =>
        /\ (content_returned # ContentNone /\ content_returned.state = "closed" =>
              line_returned =
                RenderLine(<<"~", "~">> \o IssueLine(content_returned) \o <<"~", "~">>))
        /\ (content_returned # ContentNone /\ content_returned.state # "closed" =>
              line_returned = RenderLine(IssueLine(content_returned)))
        /\ (content_returned = ContentNone => line_returned = RenderLine(card.note))
        /\ (content_returned = Content(<<"T">>, 12, <<"u">>, "closed") =>
              line_returned = <<"*", " ", "~", "~", "T", " ", "-", " ", "[", "I", "s", "s", "u", "e", " ", "#", "1", "2", "]", "(", "u", ")", "~", "~">>)
        /\ (content_returned = Content(<<"T">>, 7, <<"u">>, "open") =>
              line_returned = <<"*", " ", "T", " ", "-", " ", "[", "I", "s", "s", "u", "e", " ", "#", "7", "]", "(", "u", ")">>)
        /\ (content_returned = ContentNone /\ card.note = <<"n">> =>
              line_returned = <<"*", " ", "n">>)

\* A card whose closed issue was resolved has been formatted, struck through.
C7_Witness ==
    /\ last_op = "format_card"
    /\ content_returned = Content(<<"T">>, 12, <<"u">>, "closed")
    /\ line_returned = <<"*", " ", "~", "~", "T", " ", "-", " ", "[", "I", "s", "s", "u", "e", " ", "#", "1", "2", "]", "(", "u", ")", "~", "~">>

(***************************************************************************)
(* Properties of the CDATA substitution.                                   *)
(***************************************************************************)
AdjacentWrappers ==
    <<CDATA_OPEN, <<"a">>, CDATA_CLOSE, CDATA_OPEN, <<"b">>, CDATA_CLOSE>>

\* C8 as stated: for every text the substitution applied to its own result
\* changes nothing, and adjacent wrappers are unwrapped one by one.
C8_Original ==
    /\ (cd_pc = "twice" => stripped_twice = stripped_once)
    /\ (cd_pc # "start" /\ cdata_pieces = AdjacentWrappers =>
          stripped_once = <<"a", "b">>)

\* "<" stands in the text only as the first character of a wrapper: no opener
\* inside a wrapper, none left unclosed (the plain pieces hold no "<").
RECURSIVE FlatFrom(_, _, _)
FlatFrom(pieces, k, inside) ==
    IF k > Len(pieces) THEN ~inside
    ELSE IF pieces[k] = CDATA_OPEN THEN ~inside /\ FlatFrom(pieces, k + 1, TRUE)
         ELSE IF pieces[k] = CDATA_CLOSE THEN FlatFrom(pieces, k + 1, FALSE)
              ELSE FlatFrom(pieces, k + 1, inside)

\* The text without the delimiters of its wrappers.
RECURSIVE Unwrapped(_, _, _)
Unwrapped(pieces, k, inside) ==
    IF k > Len(pieces) THEN <<>>
    ELSE IF pieces[k] = CDATA_OPEN THEN Unwrapped(pieces, k + 1, TRUE)
         ELSE IF pieces[k] = CDATA_CLOSE /\ inside THEN Unwrapped(pieces, k + 1, FALSE)
              ELSE pieces[k] \o Unwrapped(pieces, k + 1, inside)

\* C8 amended: on a text where "<" stands only as the first character of a
\* wrapper, the substitution removes the delimiters of each wrapper, one
\* wrapper at a time, and applied to its own result it changes nothing.
C8_NonGreedyIdempotentOnFlat ==
    /\ (cd_pc # "start" /\ FlatFrom(cdata_pieces, 1, FALSE) =>
          stripped_once = Unwrapped(cdata_pieces, 1, FALSE))
    /\ (cd_pc = "twice" /\ FlatFrom(cdata_pieces, 1, FALSE) =>
          stripped_twice = stripped_once)
    /\ (cd_pc # "start" /\ cdata_pieces = AdjacentWrappers =>
          stripped_once = <<"a", "b">>)

\* The two adjacent wrappers have been stripped twice.
C8_Witness ==
    /\ cd_pc = "twice"
    /\ cdata_pieces = AdjacentWrappers
    /\ stripped_once = <<"a", "b">>
    /\ stripped_twice = <<"a", "b">>

(***************************************************************************)
(* Properties of get_project_node_id_from_uri and add_issues_to_project.   *)
(***************************************************************************)
IsMutation(c) == c.kind \in {"add", "update"}
Mutations == SelectSeq(calls, IsMutation)
LastCall == calls[Len(calls)]

\* C1: a non-200 answer to the add-item or the status-update call of an
\* issue raises the error naming that issue's title, it is the last call made
\* (no status update for that issue, nothing for later issues, no rollback),
\* and the issues handled before it stay on the board.
C1_NonOkMutationAborts ==
    /\ \A k \in 1..(Len(calls) - 1) :
          IsMutation(calls[k]) => calls[k].status_code = 200
    /\ (calls # <<>> /\ IsMutation(LastCall) /\ LastCall.status_code # 200 =>
          /\ imp_pc = "raised"
          /\ imp_error.type = "Exception"
          /\ imp_error.op = LastCall.kind
          /\ imp_error.title = issues[issue_index].title
          /\ (LastCall.kind = "add" =>
                /\ LastCall.contentId = issues[issue_index].node_id
                /\ Len(Mutations) = 2 * (issue_index - 1) + 1
                /\ Len(board) = issue_index - 1)
          /\ (LastCall.kind = "update" =>
                /\ LastCall.itemId = item_id
                /\ Len(Mutations) = 2 * issue_index
                /\ Len(board) = issue_index)
          /\ \A k \in 1..Len(board) : board[k].content_id = issues[k].node_id)

\* The status update of the second issue was answered with a non-200: the
\* import has stopped with both items on the board.
C1_Witness ==
    /\ imp_pc = "raised"
    /\ issue_index = 2
    /\ Len(issues) = 3
    /\ LastCall.kind = "update"
    /\ LastCall.status_code # 200
    /\ imp_error.title = issues[2].title
    /\ Len(board) = 2

\* C5: a 200 answer to the project query that lacks
\* data.organization.projectV2.id makes the resolver fail with a
\* ProjectNotFoundError, not with a raw lookup failure.
C5_ProjectNotFoundError ==
    (calls # <<>> /\ LastCall.kind = "query_node"
       /\ LastCall.status_code = 200 /\ LastCall.node_id = None) =>
        /\ imp_pc = "raised"
        /\ imp_error.type = "ProjectNotFoundError"

\* C9: the first mutating call follows the successful resolution of the
\* project node; the mutating calls are, issue by issue in list order, the
\* add of the issue and then the status update of the item that add returned;
\* there are at most two per issue.
C9_SequentialAddThenUpdate ==
    /\ Len(Mutations) <= 2 * Len(issues)
    /\ (Mutations # <<>> =>
          /\ Len(calls) >= 3
          /\ calls[3].kind = "query_node"
          /\ calls[3].status_code = 200
          /\ calls[3].node_id = project_node_id
          /\ project_node_id # None
          /\ \A k \in 1..Len(calls) : IsMutation(calls[k]) <=> k > 3)
    /\ \A m \in 1..Len(Mutations) :
          IF m % 2 = 1
          THEN /\ Mutations[m].kind = "add"
               /\ Mutations[m].projectId = project_node_id
               /\ Mutations[m].contentId = issues[(m + 1) \div 2].node_id
          ELSE /\ Mutations[m].kind = "update"
               /\ Mutations[m - 1].status_code = 200
               /\ Mutations[m - 1].returned # None
               /\ Mutations[m].itemId = Mutations[m - 1].returned
               /\ Mutations[m].fieldId = "Status"
               /\ Mutations[m].value = "Extracted"

\* Two issues have been imported, each with its own item id: four mutating
\* calls.
C9_Witness ==
    /\ imp_pc = "returned"
    /\ Len(issues) = 2
    /\ Len(Mutations) = 4
    /\ Mutations[1].returned # Mutations[3].returned
    /\ Mutations[4].itemId = Mutations[3].returned

====
